---- MODULE Spec2Model ----
(***************************************************************************)
(* Model of src/server.js (the second, "full Shopify schema" server that   *)
(* starts at line 335): an express backend over a PostgreSQL store with    *)
(* three tables (companies, products, monitoring_configs).                 *)
(*                                                                         *)
(* The store is PostgreSQL at its default READ COMMITTED level:            *)
(*  - a pool.query() call is one autocommit statement, one atomic step;    *)
(*  - inside BEGIN..COMMIT the rows a transaction inserted are invisible   *)
(*    to the others until COMMIT, but they hold their unique-index         *)
(*    entries and a key-share lock on the parent company row, so a         *)
(*    conflicting statement of another session waits for the transaction   *)
(*    to end (a guard here), and a wait cycle is broken with 40P01;        *)
(*  - any error inside a transaction block puts it in the aborted state:   *)
(*    every later statement fails with 25P02 until the block ends, and     *)
(*    COMMIT of an aborted block is executed as ROLLBACK and reports no    *)
(*    error to the client;                                                 *)
(*  - SERIAL sequences are not transactional: a value drawn by a failed or *)
(*    rolled back insert is never handed out again.                        *)
(***************************************************************************)
EXTENDS Integers, Sequences, FiniteSets, TLC

\* ------------------------------------------------------------------ bounds
MaxCompanies == 2        \* values the companies id sequence hands out
MaxProductIds == 2       \* values the products id sequence hands out
MaxConfigIds == 3        \* values the monitoring_configs id sequence hands out
MaxBatch == 2            \* longest bulk request body
MaxProcs == 2            \* bulk requests in flight at once
MaxBulk == 2             \* bulk requests begun in one run
MaxSid == 2              \* distinct external (Shopify) product ids
MaxOwner == 1            \* company ids that product and config requests name
MaxClock == 2            \* ticks of CURRENT_TIMESTAMP
PoolMax == 3             \* clients the pool hands out at once

\* ------------------------------------------------- values and conversions
NULL == -1               \* JS undefined/null and SQL NULL of a numeric field
UNDEFS == "<undefined>"  \* JS undefined/null and SQL NULL of a text field

FalsyNum(v) == v = NULL \/ v = 0
FalsyStr(v) == v = UNDEFS \/ v = ""
\* `x || null` on a numeric request field
OrNull(v) == IF FalsyNum(v) THEN NULL ELSE v

\* nextval() of a SERIAL sequence.  A value is drawn by every INSERT that runs,
\* failed or not; the counter stops at max + 1, where no further row can be
\* inserted while a failing INSERT can still run.
NextVal(seq, max) == IF seq <= max THEN seq + 1 ELSE seq

Procs == 1 .. MaxProcs
Range(s) == {s[k] : k \in 1 .. Len(s)}

VARIABLES
  companies,       \* committed rows of table companies
  products,        \* committed rows of table products
  configs,         \* committed rows of table monitoring_configs
  nextCompanyId,   \* companies_id_seq
  nextProductId,   \* products_id_seq
  nextConfigId,    \* monitoring_configs_id_seq
  clock,           \* CURRENT_TIMESTAMP
  req,             \* the bulk (transactional) requests, one per slot
  begun,           \* bulk requests begun so far
  resp,            \* the last response sent
  schema,          \* the committed schema: tables, indexes and the view
  boot,            \* the POST /api/setup-database request
  checkedOut,      \* clients checked out of the pool and not yet released
  stats            \* the GET /api/stats request and its four queries

dbVars == <<companies, products, configs, nextCompanyId, nextProductId, nextConfigId, clock>>
bootVars == <<schema, boot, stats>>
sysVars == <<schema, boot, stats, checkedOut>>
vars == <<companies, products, configs, nextCompanyId, nextProductId, nextConfigId, clock, req, begun, resp, schema, boot, checkedOut, stats>>

\* ------------------------------------------------------------ the pool
\* the pool hands out a client at once while it has fewer than its maximum
\* checked out; a request for one more waits in the pool's queue
ClientFree == checkedOut < PoolMax

\* `await pool.connect()`: one more client is checked out
Acquire(n) == n + 1

\* a handler whose finally block forgets the client
ReleaseForgotten(n) == n

\* `client.release()` in the finally block: the client goes back to the pool
Release(n) == n - 1

\* ------------------------------------------------------------ the schema
\* A table is "absent", "full" (the columns POST /api/setup-database gives it) or
\* "legacy" (the columns the older server of lines 253-296 gave it); the view
\* likewise.  `indexes` are the indexes on products.
ProductIndexes ==
  {"idx_products_company_id", "idx_products_shopify_id", "idx_products_is_new",
   "idx_products_first_seen"}
FullSchema ==
  [companies |-> "full", monitoring_configs |-> "full", products |-> "full",
   indexes |-> ProductIndexes, view |-> "full"]
EmptySchema ==
  [companies |-> "absent", monitoring_configs |-> "absent", products |-> "absent",
   indexes |-> {}, view |-> "absent"]

\* the bootstrap request: idle, or between BEGIN and COMMIT/ROLLBACK with its
\* position `pc`, the schema `before` BEGIN, the schema its transaction sees
\* (`working`), whether the request follows a bootstrap that succeeded (`again`)
\* and the SQLSTATE that sent it to the catch block
IdleBoot ==
  [pc |-> "idle", before |-> EmptySchema, working |-> EmptySchema, again |-> FALSE,
   err |-> "ok"]

\* ---------------------------------------------------------------- requests
\* A request slot runs one bulk request at a time: idle, then between BEGIN and
\* COMMIT/ROLLBACK, then idle again once the response is sent and the client
\* released.  `n` is the length of the array in the body and `batch` the records
\* the loop has read so far: the handler reads record i only in iteration i, so
\* the record is drawn when it is read.  `prior` remembers, for a request that
\* follows a fully accepted one, the batch of that one.
NoPrior == [ok |-> FALSE, batch |-> <<>>]
IdleReq ==
  [kind |-> "none", pc |-> "idle", n |-> 0, batch |-> <<>>, added |-> <<>>,
   skipped |-> <<>>, tx |-> "none", err |-> "ok", prior |-> NoPrior]

\* The last response sent.  A bulk response carries the handler's arrays; `err`
\* is the SQLSTATE that ended the loop and `resub` says the request repeated the
\* batch of the fully accepted request before it.
Response(op, status) ==
  [op |-> op, status |-> status, n |-> 0, batch |-> <<>>, added |-> <<>>,
   skipped |-> <<>>, err |-> "ok", resub |-> FALSE, at |-> 0]
BulkResponse(op, status, r) ==
  [op |-> op, status |-> status, n |-> r.n, batch |-> r.batch, added |-> r.added,
   skipped |-> r.skipped, err |-> r.err,
   resub |-> r.prior.ok /\ r.prior.batch = r.batch /\ Len(r.batch) = r.n, at |-> 0]
NoResp == Response("none", 0)

\* A bulk handler between its BEGIN and its COMMIT/ROLLBACK: the rows it inserted
\* are uncommitted but hold their index entries and parent-row locks.
InFlight(p) == req[p].pc \in {"loop", "wait", "commit", "rollback"}
TxProducts(p) == IF InFlight(p) /\ req[p].kind = "products" THEN Range(req[p].added) ELSE {}
TxCompanies(p) == IF InFlight(p) /\ req[p].kind = "companies" THEN Range(req[p].added) ELSE {}
\* the uncommitted rows a session sees: its own (session 0 is an autocommit statement)
OwnProducts(self) == IF self \in Procs THEN TxProducts(self) ELSE {}
OthersProducts(self) == UNION {TxProducts(q) : q \in Procs \ {self}}

\* ------------------------------------------------------------ table products
\* UNIQUE(company_id, shopify_product_id): SQL NULLs never compare equal
KeyConflictNullsEqual(row, c, s) ==
  row.company_id = c /\ row.shopify_product_id = s

KeyConflict(row, c, s) ==
  c # NULL /\ s # NULL /\ row.company_id = c /\ row.shopify_product_id = s

\* company_id INTEGER REFERENCES companies(id): NULL references nothing; only
\* committed companies are visible to the check
ProductFkViolation(c) == c # NULL /\ c \notin {co.id : co \in companies}

\* the SQLSTATE of INSERT INTO products for session self, r.shopify_product_id
\* already converted by `|| null`; `rows` are the rows the session sees
ProductInsertError(rows, r) ==
  IF r.title = UNDEFS THEN "23502"                       \* title NOT NULL
  ELSE IF \E row \in rows : KeyConflict(row, r.company_id, r.shopify_product_id)
       THEN "23505"
  ELSE IF ProductFkViolation(r.company_id) THEN "23503"
  ELSE "ok"

\* the insert reaches the unique index and finds the key held by an uncommitted
\* row of another transaction: it waits for that transaction to end
ProductInsertWaitsFor(self, r) ==
  IF r.title = UNDEFS
     \/ \E row \in products \cup OwnProducts(self) :
           KeyConflict(row, r.company_id, r.shopify_product_id)
  THEN {}
  ELSE {q \in Procs \ {self} :
          \E row \in TxProducts(q) : KeyConflict(row, r.company_id, r.shopify_product_id)}

\* the row an INSERT stores: the bodies of the model leave is_new_product out,
\* and the handlers then send `true`
NewProductRow(id, r) ==
  [id |-> id, company_id |-> r.company_id, shopify_product_id |-> r.shopify_product_id,
   is_new_product |-> "true"]

\* the row an UPDATE stores: is_new_product = $14 is the field of the body as
\* it came, and NULL when the body has none
UpdatedProductRow(id, body) ==
  [NewProductRow(id, body) EXCEPT
     !.is_new_product = IF "is_new_product" \in DOMAIN body THEN body.is_new_product
                        ELSE "null"]

CompanyRefs == 1 .. MaxOwner
SidInputs == {NULL} \cup (1 .. MaxSid)
TitleInputs == {UNDEFS, "Shirt"}
ProductBodies ==
  [company_id : CompanyRefs \cup {NULL}, shopify_product_id : SidInputs, title : TitleInputs]
ProductRecords ==
  [company_id : CompanyRefs \cup {NULL}, shopify_product_id : SidInputs, title : TitleInputs]

\* the bodies of S, each sent with is_new_product: true
Flagged(S) ==
  {[company_id |-> b.company_id, shopify_product_id |-> b.shopify_product_id,
    title |-> b.title, is_new_product |-> "true"] : b \in S}

\* a catch block with no test of err.code
InsertStatusNoConflict(e) == IF e = "ok" THEN 201 ELSE 500

\* the status of POST /api/products: 201, or in the catch block 409 when
\* `err.code === '23505'` and 500 otherwise
InsertStatus(e) == IF e = "ok" THEN 201 ELSE IF e = "23505" THEN 409 ELSE 500

\* POST /api/products
AddProduct(body) ==
  IF FalsyNum(body.company_id) \/ FalsyStr(body.title)
  THEN /\ resp' = Response("addProduct", 400)
       /\ UNCHANGED <<dbVars, req, begun, sysVars>>
  ELSE LET r == [body EXCEPT !.shopify_product_id = OrNull(@)]
           e == ProductInsertError(products, r)
       IN /\ ClientFree
          /\ e = "ok" => nextProductId <= MaxProductIds
          /\ ProductInsertWaitsFor(0, r) = {}
          /\ nextProductId' = NextVal(nextProductId, MaxProductIds)
          /\ products' = IF e = "ok" THEN products \cup {NewProductRow(nextProductId, r)}
                         ELSE products
          /\ resp' = Response("addProduct", InsertStatus(e))
          /\ UNCHANGED <<companies, configs, nextCompanyId, nextConfigId, clock, req, begun, sysVars>>

\* the SQLSTATE of UPDATE products SET company_id, shopify_product_id, ... WHERE id
ProductUpdateError(old, body) ==
  IF \E row \in products \ {old} : KeyConflict(row, body.company_id, body.shopify_product_id)
  THEN "23505"
  ELSE IF ProductFkViolation(body.company_id) THEN "23503"
  ELSE "ok"

\* PUT /api/products/:id
UpdateProduct(id, body) ==
  IF FalsyStr(body.title)
  THEN /\ resp' = Response("updateProduct", 400)
       /\ UNCHANGED <<dbVars, req, begun, sysVars>>
  ELSE IF \A row \in products : row.id # id
  THEN /\ ClientFree
       /\ resp' = Response("updateProduct", 404)
       /\ UNCHANGED <<dbVars, req, begun, sysVars>>
  ELSE LET old == CHOOSE row \in products : row.id = id
           e == ProductUpdateError(old, body)
       IN /\ ClientFree
          /\ e # "23505" =>
                \A row \in OthersProducts(0) :
                   ~KeyConflict(row, body.company_id, body.shopify_product_id)
          /\ products' = IF e = "ok" THEN (products \ {old}) \cup {UpdatedProductRow(id, body)}
                         ELSE products
          /\ resp' = Response("updateProduct", IF e = "ok" THEN 200 ELSE 500)
          /\ UNCHANGED <<companies, configs, nextCompanyId, nextProductId, nextConfigId,
                         clock, req, begun, sysVars>>

\* a handler that never looks at result.rows.length
DeleteProductUnchecked(id) ==
  /\ ClientFree
  /\ products' = {row \in products : row.id # id}
  /\ resp' = Response("deleteProduct", 200)
  /\ UNCHANGED <<companies, configs, nextCompanyId, nextProductId, nextConfigId, clock, req,
                 begun, sysVars>>

\* DELETE /api/products/:id
DeleteProduct(id) ==
  /\ ClientFree
  /\ products' = {row \in products : row.id # id}
  /\ resp' = Response("deleteProduct", IF \E row \in products : row.id = id THEN 200 ELSE 404)
  /\ UNCHANGED <<companies, configs, nextCompanyId, nextProductId, nextConfigId, clock, req, begun, sysVars>>

\* ------------------------------------------------- POST /api/products/bulk
\* a loop with no catch of its own
IsToleratedNever(code) == FALSE
\* a loop that swallows every failure of an INSERT
IsToleratedAnyError(code) == code # "ok"
\* `if (err.code === '23505')`: the one failure the loop tolerates
IsTolerated(code) == code = "23505"

\* the record as the INSERT receives it
BulkProductParams(product) == [product EXCEPT !.shopify_product_id = OrNull(@)]

\* a handler that takes its client before it looks at the body, and returns
\* from the check without releasing it
BulkProductsRejectLate(p) ==
  /\ req[p].pc = "idle"
  /\ resp' = Response("bulkProducts", 400)
  /\ checkedOut' = Acquire(checkedOut)
  /\ UNCHANGED <<dbVars, req, begun, bootVars>>

\* `!products || !Array.isArray(products)`: answered before any store access
BulkProductsReject(p) ==
  /\ req[p].pc = "idle"
  /\ resp' = Response("bulkProducts", 400)
  /\ UNCHANGED <<dbVars, req, begun, sysVars>>

\* the last response was a bulk ingestion that accepted every record of its
\* batch, and the rows it returned are in the table
LastAccepted ==
  IF /\ resp.op = "bulkProducts" /\ resp.status = 201
     /\ Len(resp.added) = resp.n
     /\ Range(resp.added) \subseteq products
  THEN [ok |-> TRUE, batch |-> resp.batch]
  ELSE NoPrior

\* pool.connect() and BEGIN
BulkProductsBegin(p, n) ==
  /\ req[p].pc = "idle"
  /\ ClientFree
  /\ begun < MaxBulk
  /\ begun' = begun + 1
  /\ req' = [req EXCEPT ![p] = [IdleReq EXCEPT !.kind = "products", !.n = n,
                                               !.pc = IF n = 0 THEN "commit" ELSE "loop",
                                               !.tx = "active", !.prior = LastAccepted]]
  /\ UNCHANGED <<dbVars, resp, bootVars>>
  /\ checkedOut' = Acquire(checkedOut)

\* where the loop goes after the record it has just read
AfterRecord(r) == IF Len(r.batch) = r.n THEN "commit" ELSE "loop"

\* the request after the INSERT of its last read record has run, with `id` the
\* value drawn from the sequence: try { INSERT; push } catch { skip or re-throw }
ProductInsertDoneDropsSkipped(p, r, id) ==
  LET product == r.batch[Len(r.batch)]
      params == BulkProductParams(product)
      e == IF r.tx = "aborted" THEN "25P02"
           ELSE ProductInsertError(products \cup TxProducts(p), params)
  IN IF e = "ok"
     THEN [r EXCEPT !.err = e, !.pc = AfterRecord(r),
                    !.added = Append(@, NewProductRow(id, params))]
     ELSE IF IsTolerated(e)
     THEN [r EXCEPT !.err = e, !.pc = AfterRecord(r), !.tx = "aborted"]
     ELSE [r EXCEPT !.err = e, !.tx = "aborted", !.pc = "rollback"]

ProductInsertDone(p, r, id) ==
  LET product == r.batch[Len(r.batch)]
      params == BulkProductParams(product)
      e == IF r.tx = "aborted" THEN "25P02"
           ELSE ProductInsertError(products \cup TxProducts(p), params)
  IN IF e = "ok"
     THEN [r EXCEPT !.err = e, !.pc = AfterRecord(r),
                    !.added = Append(@, NewProductRow(id, params))]
     ELSE IF IsTolerated(e)
     THEN [r EXCEPT !.err = e, !.pc = AfterRecord(r), !.tx = "aborted",
                    !.skipped = Append(@, [product |-> product,
                                           reason |-> "Duplicate Shopify ID"])]
     ELSE [r EXCEPT !.err = e, !.tx = "aborted", !.pc = "rollback"]

\* the sessions the INSERT of the last read record of r waits for
InsertWaitsFor(p, r) ==
  IF r.tx = "active"
  THEN ProductInsertWaitsFor(p, BulkProductParams(r.batch[Len(r.batch)]))
  ELSE {}

\* one iteration of `for (const product of products)`: the INSERT is sent; it
\* runs at once, or waits on a key held by another open transaction
BulkProductsInsert(p, product) ==
  LET r == [req[p] EXCEPT !.batch = Append(@, product)]
  IN /\ req[p].kind = "products" /\ req[p].pc = "loop"
     /\ IF InsertWaitsFor(p, r) # {}
        THEN /\ req' = [req EXCEPT ![p] = [r EXCEPT !.pc = "wait"]]
             /\ UNCHANGED nextProductId
        ELSE /\ ProductInsertDone(p, r, nextProductId).err = "ok"
                  => nextProductId <= MaxProductIds
             /\ nextProductId' = IF r.tx = "active"
                                 THEN NextVal(nextProductId, MaxProductIds)
                                 ELSE nextProductId
             /\ req' = [req EXCEPT ![p] = ProductInsertDone(p, r, nextProductId)]
     /\ UNCHANGED <<companies, products, configs, nextCompanyId, nextConfigId, clock, begun, resp, sysVars>>

\* the transaction the INSERT waited for has ended
BulkProductsResume(p) ==
  /\ req[p].kind = "products" /\ req[p].pc = "wait"
  /\ InsertWaitsFor(p, req[p]) = {}
  /\ ProductInsertDone(p, req[p], nextProductId).err = "ok" => nextProductId <= MaxProductIds
  /\ nextProductId' = NextVal(nextProductId, MaxProductIds)
  /\ req' = [req EXCEPT ![p] = ProductInsertDone(p, req[p], nextProductId)]
  /\ UNCHANGED <<companies, products, configs, nextCompanyId, nextConfigId, clock, begun, resp, sysVars>>

\* the sessions a waiting INSERT waits for, directly or through their own waits
Blockers(p) ==
  IF req[p].kind = "products" /\ req[p].pc = "wait" THEN InsertWaitsFor(p, req[p]) ELSE {}
RECURSIVE WaitClosure(_, _)
WaitClosure(S, k) ==
  IF k = 0 THEN S ELSE WaitClosure(S \cup UNION {Blockers(q) : q \in S}, k - 1)

\* the store's deadlock detector ends one INSERT of a wait cycle with 40P01
BulkProductsDeadlock(p) ==
  /\ p \in WaitClosure(Blockers(p), MaxProcs)
  /\ req' = [req EXCEPT ![p] = [@ EXCEPT !.err = "40P01", !.tx = "aborted",
                                         !.pc = "rollback"]]
  /\ UNCHANGED <<dbVars, begun, resp, sysVars>>

\* what COMMIT leaves in a table: the transaction's rows join it, unless the
\* block is in the aborted state, when COMMIT is executed as ROLLBACK
AfterCommit(table, r) == IF r.tx = "active" THEN table \cup Range(r.added) ELSE table

\* COMMIT, then res.status(201).json({products, added, skipped, skippedProducts})
BulkProductsCommit(p) ==
  /\ req[p].kind = "products" /\ req[p].pc = "commit"
  /\ products' = AfterCommit(products, req[p])
  /\ resp' = BulkResponse("bulkProducts", 201, req[p])
  /\ req' = [req EXCEPT ![p] = IdleReq]
  /\ UNCHANGED <<companies, configs, nextCompanyId, nextProductId, nextConfigId, clock, begun, bootVars>>
  /\ checkedOut' = Release(checkedOut)

\* a broken ROLLBACK: the rows the transaction inserted stay
AfterRollbackKeepsRows(table, r) == table \cup Range(r.added)

\* ROLLBACK: a table after it, none of the transaction's rows in it
AfterRollback(table, r) == table

\* the outer catch: ROLLBACK, then res.status(500)
BulkProductsRollback(p) ==
  /\ req[p].kind = "products" /\ req[p].pc = "rollback"
  /\ products' = AfterRollback(products, req[p])
  /\ resp' = BulkResponse("bulkProducts", 500, req[p])
  /\ req' = [req EXCEPT ![p] = IdleReq]
  /\ UNCHANGED <<companies, configs, nextCompanyId, nextProductId, nextConfigId, clock, begun, bootVars>>
  /\ checkedOut' = Release(checkedOut)

\* ----------------------------------------------------------- table companies
NameInputs == {UNDEFS, "acme"}

\* a name that does not fit VARCHAR(100)
LongName == "<a name of 101 characters>"
TooLong(name) == name = LongName

\* the SQLSTATE of INSERT INTO companies: name VARCHAR(100) NOT NULL, and no
\* constraint that compares the name with the names of other rows
CompanyInsertError(company) ==
  IF company.name = UNDEFS THEN "23502"
  ELSE IF TooLong(company.name) THEN "22001"
  ELSE "ok"

\* an INSERT that passes no is_active to a column with no value for it
NewCompanyRowNoFlag(id, company) == [id |-> id, name |-> company.name, is_active |-> "null"]

\* what INSERT INTO companies (..., is_active) VALUES (..., true) RETURNING * returns
NewCompanyRow(id, company) == [id |-> id, name |-> company.name, is_active |-> "true"]

\* POST /api/companies
AddCompany(name) ==
  IF FalsyStr(name)
  THEN /\ resp' = Response("addCompany", 400)
       /\ UNCHANGED <<dbVars, req, begun, sysVars>>
  ELSE LET e == CompanyInsertError([name |-> name])
           row == NewCompanyRow(nextCompanyId, [name |-> name])
       IN /\ ClientFree
          /\ e = "ok" => nextCompanyId <= MaxCompanies
          /\ nextCompanyId' = NextVal(nextCompanyId, MaxCompanies)
          /\ companies' = IF e = "ok" THEN companies \cup {row} ELSE companies
          /\ resp' = IF e = "ok"
                     THEN [Response("addCompany", 201) EXCEPT
                             !.batch = <<[name |-> name]>>, !.added = <<row>>]
                     ELSE [Response("addCompany", 500) EXCEPT !.err = e]
          /\ UNCHANGED <<products, configs, nextProductId, nextConfigId, clock, req, begun,
                         sysVars>>

\* the value the store receives for the is_active of PATCH .../status: a body
\* without the field sends NULL
StatusInputs == {"true", "false", "null"}

\* PATCH /api/companies/:id/status
SetCompanyStatus(id, is_active) ==
  IF \A co \in companies : co.id # id
  THEN /\ ClientFree
       /\ resp' = Response("setStatus", 404)
       /\ UNCHANGED <<dbVars, req, begun, sysVars>>
  ELSE /\ ClientFree
       /\ companies' = {IF co.id = id THEN [co EXCEPT !.is_active = is_active] ELSE co :
                          co \in companies}
       /\ resp' = Response("setStatus", 200)
       /\ UNCHANGED <<products, configs, nextCompanyId, nextProductId, nextConfigId, clock,
                      req, begun, sysVars>>

\* a foreign key with no ON DELETE CASCADE and no check
NoCascade(table, id) == table

\* REFERENCES companies(id) ON DELETE CASCADE, on products and on monitoring_configs:
\* the rows of a dependent table that outlive the company
CascadeDelete(table, id) == {row \in table : row.company_id # id}

\* DELETE /api/companies/:id.  An uncommitted product that references the company
\* holds a key-share lock on its row: the DELETE waits for that transaction.
DeleteCompany(id) ==
  IF \A co \in companies : co.id # id
  THEN /\ ClientFree
       /\ resp' = Response("deleteCompany", 404)
       /\ UNCHANGED <<dbVars, req, begun, sysVars>>
  ELSE /\ ClientFree
       /\ \A p \in Procs : \A row \in TxProducts(p) : row.company_id # id
       /\ companies' = {co \in companies : co.id # id}
       /\ products' = CascadeDelete(products, id)
       /\ configs' = CascadeDelete(configs, id)
       /\ resp' = [Response("deleteCompany", 200) EXCEPT
                     !.batch = <<[id |-> id]>>,
                     !.n = Cardinality(products \ products'),
                     !.at = Cardinality(configs \ configs')]
       /\ UNCHANGED <<nextCompanyId, nextProductId, nextConfigId, clock, req, begun, sysVars>>

\* ------------------------------------------------- POST /api/companies/bulk
CompanyRecords == [name : NameInputs]

\* `!companies || !Array.isArray(companies)`
BulkCompaniesReject(p) ==
  /\ req[p].pc = "idle"
  /\ resp' = Response("bulkCompanies", 400)
  /\ UNCHANGED <<dbVars, req, begun, sysVars>>

\* pool.connect() and BEGIN
BulkCompaniesBegin(p, n) ==
  /\ req[p].pc = "idle"
  /\ ClientFree
  /\ begun < MaxBulk
  /\ begun' = begun + 1
  /\ req' = [req EXCEPT ![p] = [IdleReq EXCEPT !.kind = "companies", !.n = n,
                                               !.pc = IF n = 0 THEN "commit" ELSE "loop",
                                               !.tx = "active"]]
  /\ UNCHANGED <<dbVars, resp, bootVars>>
  /\ checkedOut' = Acquire(checkedOut)

\* one iteration of `for (const company of companies)`: no catch inside the loop
BulkCompaniesInsert(p, company) ==
  LET r == [req[p] EXCEPT !.batch = Append(@, company)]
      e == CompanyInsertError(company)
  IN /\ req[p].kind = "companies" /\ req[p].pc = "loop"
     /\ e = "ok" => nextCompanyId <= MaxCompanies
     /\ nextCompanyId' = NextVal(nextCompanyId, MaxCompanies)
     /\ req' = [req EXCEPT ![p] =
          IF e = "ok"
          THEN [r EXCEPT !.err = e, !.pc = AfterRecord(r),
                         !.added = Append(@, NewCompanyRow(nextCompanyId, company))]
          ELSE [r EXCEPT !.err = e, !.tx = "aborted", !.pc = "rollback"]]
     /\ UNCHANGED <<companies, products, configs, nextProductId, nextConfigId, clock, begun, resp, sysVars>>

\* COMMIT, then res.status(201).json({companies, count})
BulkCompaniesCommit(p) ==
  /\ req[p].kind = "companies" /\ req[p].pc = "commit"
  /\ companies' = AfterCommit(companies, req[p])
  /\ resp' = BulkResponse("bulkCompanies", 201, req[p])
  /\ req' = [req EXCEPT ![p] = IdleReq]
  /\ UNCHANGED <<products, configs, nextCompanyId, nextProductId, nextConfigId, clock, begun, bootVars>>
  /\ checkedOut' = Release(checkedOut)

\* catch: ROLLBACK, then res.status(500)
BulkCompaniesRollback(p) ==
  /\ req[p].kind = "companies" /\ req[p].pc = "rollback"
  /\ companies' = AfterRollback(companies, req[p])
  /\ resp' = BulkResponse("bulkCompanies", 500, req[p])
  /\ req' = [req EXCEPT ![p] = IdleReq]
  /\ UNCHANGED <<products, configs, nextCompanyId, nextProductId, nextConfigId, clock, begun, bootVars>>
  /\ checkedOut' = Release(checkedOut)

\* -------------------------------------------------- table monitoring_configs
DaysBackInputs == {NULL, 0, 3}
MaxProductsInputs == {NULL, 0, 5}
FrequencyInputs == {UNDEFS, "daily"}
EnabledInputs == {UNDEFS, "true", "false"}
ConfigBodies ==
  [company_id : CompanyRefs \cup {NULL}, days_back : DaysBackInputs,
   max_products : MaxProductsInputs, check_frequency : FrequencyInputs,
   is_enabled : EnabledInputs]

\* the parameters $2..$5 of the upsert
ConfigParams(body) ==
  [days_back |-> IF FalsyNum(body.days_back) THEN 7 ELSE body.days_back,
   max_products |-> IF FalsyNum(body.max_products) THEN 50 ELSE body.max_products,
   check_frequency |-> IF FalsyStr(body.check_frequency) THEN "weekly"
                       ELSE body.check_frequency,
   is_enabled |-> IF body.is_enabled # UNDEFS THEN body.is_enabled ELSE "true"]

\* a plain INSERT with no ON CONFLICT clause and no unique constraint behind it
InsertOnly(table, id, company_id, v) ==
  table \cup {[id |-> id, company_id |-> company_id, days_back |-> v.days_back,
              max_products |-> v.max_products,
              check_frequency |-> v.check_frequency, is_enabled |-> v.is_enabled,
              created_at |-> clock, updated_at |-> clock]}

\* INSERT ... ON CONFLICT (company_id) DO UPDATE SET ..., updated_at = CURRENT_TIMESTAMP:
\* the table after the statement, `id` the value drawn for the row's id
Upsert(table, id, company_id, v) ==
  IF \E row \in table : row.company_id = company_id
  THEN {IF row.company_id = company_id
        THEN [row EXCEPT !.days_back = v.days_back, !.max_products = v.max_products,
                         !.check_frequency = v.check_frequency,
                         !.is_enabled = v.is_enabled, !.updated_at = clock]
        ELSE row : row \in table}
  ELSE table \cup {[id |-> id, company_id |-> company_id, days_back |-> v.days_back,
                    max_products |-> v.max_products,
                    check_frequency |-> v.check_frequency, is_enabled |-> v.is_enabled,
                    created_at |-> clock, updated_at |-> clock]}

\* POST /api/monitoring-configs
SaveMonitoringConfig(body) ==
  IF FalsyNum(body.company_id)
  THEN /\ resp' = Response("saveConfig", 400)
       /\ UNCHANGED <<dbVars, req, begun, sysVars>>
  ELSE LET existed == \E row \in configs : row.company_id = body.company_id
           e == IF ~existed /\ body.company_id \notin {co.id : co \in companies}
                THEN "23503" ELSE "ok"
       IN /\ ClientFree
          /\ (e = "ok" /\ ~existed) => nextConfigId <= MaxConfigIds
          /\ nextConfigId' = NextVal(nextConfigId, MaxConfigIds)
          /\ configs' = IF e = "ok"
                        THEN Upsert(configs, nextConfigId, body.company_id, ConfigParams(body))
                        ELSE configs
          /\ resp' = [Response("saveConfig", IF e = "ok" THEN 200 ELSE 500) EXCEPT
                        !.batch = <<body>>, !.resub = existed, !.at = clock]
          /\ UNCHANGED <<companies, products, nextCompanyId, nextProductId, clock, req, begun, sysVars>>

\* DELETE /api/monitoring-configs/:company_id
DeleteMonitoringConfig(company_id) ==
  /\ ClientFree
  /\ configs' = {row \in configs : row.company_id # company_id}
  /\ resp' = Response("deleteConfig",
                      IF \E row \in configs : row.company_id = company_id THEN 200 ELSE 404)
  /\ UNCHANGED <<companies, products, nextCompanyId, nextProductId, nextConfigId, clock,
                 req, begun, sysVars>>

\* time passes: CURRENT_TIMESTAMP advances
Tick ==
  /\ clock < MaxClock
  /\ clock' = clock + 1
  /\ UNCHANGED <<companies, products, configs, nextCompanyId, nextProductId, nextConfigId,
                 req, begun, resp, sysVars>>

\* ------------------------------------------------------- GET /api/stats
\* The four pool.query() calls of Promise.all, named by the field of the
\* response each fills, and the COUNT(*) each runs on the committed rows.
StatQueries == {"totalCompanies", "totalProducts", "newProducts", "activeConfigs"}
Count(k) ==
  CASE k = "totalCompanies" -> Cardinality(companies)
    [] k = "totalProducts" -> Cardinality(products)
    [] k = "newProducts" -> Cardinality({row \in products : row.is_new_product = "true"})
    [] k = "activeConfigs" -> Cardinality({mc \in configs : mc.is_enabled = "true"})

\* The request: idle, awaiting Promise.all ("await"), or answered 500 while
\* queries it sent are still out ("answered").  A query is "queued" for a
\* client, "running" on one, "done", "failed", or "stalled": sent to a store
\* that never answers it.
IdleStats ==
  [pc |-> "idle", q |-> [k \in StatQueries |-> "idle"], count |-> [k \in StatQueries |-> 0]]
Settled(q) == \A k \in StatQueries : q[k] \in {"done", "failed"}

\* the handler is entered: the four queries are handed to the pool
StatsBegin ==
  /\ stats.pc = "idle"
  /\ stats' = [stats EXCEPT !.pc = "await", !.q = [k \in StatQueries |-> "queued"]]
  /\ UNCHANGED <<dbVars, req, begun, resp, schema, boot, checkedOut>>

\* the pool has a client for a queued query and sends it
StatsSend(k) ==
  /\ stats.q[k] = "queued"
  /\ ClientFree
  /\ stats' = [stats EXCEPT !.q[k] = "running"]
  /\ checkedOut' = Acquire(checkedOut)
  /\ UNCHANGED <<dbVars, req, begun, resp, schema, boot>>

\* the store runs a query and its result arrives; the client goes back to the
\* pool.  With the last of the four results Promise.all resolves and
\* res.json({totalCompanies, totalProducts, newProducts, activeConfigs}) is sent.
StatsResult(k) ==
  LET q2 == [stats.q EXCEPT ![k] = "done"]
      c2 == [stats.count EXCEPT ![k] = Count(k)]
  IN /\ stats.q[k] = "running"
     /\ checkedOut' = Release(checkedOut)
     /\ IF Settled(q2)
        THEN /\ stats' = IdleStats
             /\ resp' = IF stats.pc = "await"
                         THEN [Response("stats", 200) EXCEPT !.batch = <<c2>>]
                         ELSE resp
        ELSE /\ stats' = [stats EXCEPT !.q = q2, !.count = c2]
             /\ resp' = resp
     /\ UNCHANGED <<dbVars, req, begun, schema, boot>>

\* a query fails: Promise.all rejects with the first failure and the catch
\* block answers 500; the other queries run on and their results are dropped
StatsQueryFails(k) ==
  LET q2 == [stats.q EXCEPT ![k] = "failed"]
  IN /\ stats.q[k] = "running"
     /\ checkedOut' = Release(checkedOut)
     /\ resp' = IF stats.pc = "await" THEN Response("stats", 500) ELSE resp
     /\ stats' = IF Settled(q2) THEN IdleStats
                 ELSE [stats EXCEPT !.q = q2, !.pc = "answered"]
     /\ UNCHANGED <<dbVars, req, begun, schema, boot>>

\* the store never answers a query it was sent (it waits behind a lock of a
\* session that is not this server's, or the network has dropped the packets):
\* no timeout is set on statements, so the query keeps its client
StatsQueryStalls(k) ==
  /\ stats.q[k] = "running"
  /\ stats' = [stats EXCEPT !.q[k] = "stalled"]
  /\ UNCHANGED <<dbVars, req, begun, resp, schema, boot, checkedOut>>

\* --------------------------------------------- waiting for a client
\* `await pool.connect()` of a bulk product request when the pool has no client
\* to hand out: the request waits in the pool's queue.  The pool is built with
\* connectionString and ssl only, so no timer ends the wait.
BulkProductsQueued(p, n) ==
  /\ req[p].pc = "idle"
  /\ ~ClientFree
  /\ begun < MaxBulk
  /\ begun' = begun + 1
  /\ req' = [req EXCEPT ![p] = [IdleReq EXCEPT !.kind = "products", !.n = n,
                                               !.pc = "connect"]]
  /\ UNCHANGED <<dbVars, resp, sysVars>>

\* a client was released and the pool hands it to the waiting request: BEGIN
BulkProductsGranted(p) ==
  /\ req[p].pc = "connect"
  /\ ClientFree
  /\ req' = [req EXCEPT ![p] = [@ EXCEPT !.pc = IF req[p].n = 0 THEN "commit" ELSE "loop",
                                         !.tx = "active", !.prior = LastAccepted]]
  /\ checkedOut' = Acquire(checkedOut)
  /\ UNCHANGED <<dbVars, begun, resp, bootVars>>

\* ------------------------------------------------- a lost connection
\* COMMIT of a bulk request throws (the connection is lost before the store
\* has run it): control goes to the catch block, nothing was committed
BulkCommitFails(p) ==
  /\ req[p].pc = "commit"
  /\ req' = [req EXCEPT ![p] = [@ EXCEPT !.err = "08006", !.tx = "aborted",
                                         !.pc = "rollback"]]
  /\ UNCHANGED <<dbVars, begun, resp, sysVars>>

\* a request whose handler has ended without sending a response: the promise
\* of the async handler was rejected and nothing catches it (the error
\* middleware only sees errors passed to next), so the request stays open;
\* `e` is the SQLSTATE of the error that was thrown first
Unanswered(kind, e) == [IdleReq EXCEPT !.kind = kind, !.pc = "hung", !.err = e]

\* ROLLBACK of a bulk request throws inside the catch block: the finally block
\* releases the client, the error leaves the handler and no response is sent;
\* the store drops the transaction of the lost session
BulkRollbackFails(p) ==
  /\ req[p].pc = "rollback"
  /\ req' = [req EXCEPT ![p] = Unanswered(req[p].kind, req[p].err)]
  /\ checkedOut' = Release(checkedOut)
  /\ UNCHANGED <<dbVars, begun, resp, bootVars>>

\* `const client = await pool.connect()` of a bulk handler throws (the store
\* cannot be reached): the statement is before the try block, so neither the
\* catch block nor the finally block runs
BulkConnectFails(p, kind) ==
  /\ req[p].pc = "idle"
  /\ begun < MaxBulk
  /\ begun' = begun + 1
  /\ req' = [req EXCEPT ![p] = Unanswered(kind, "08001")]
  /\ UNCHANGED <<dbVars, resp, sysVars>>

\* ------------------------------------- view active_companies_for_monitoring
\* the all-NULL monitoring_configs row LEFT JOIN pairs with a company that has none
NullConfig ==
  [id |-> NULL, company_id |-> NULL, days_back |-> NULL, max_products |-> NULL,
   check_frequency |-> UNDEFS, is_enabled |-> "null", created_at |-> NULL,
   updated_at |-> NULL]

\* companies c JOIN monitoring_configs mc ON c.id = mc.company_id
InnerJoin(cs, mcs) == {pair \in cs \X mcs : pair[1].id = pair[2].company_id}

\* companies c LEFT JOIN monitoring_configs mc ON c.id = mc.company_id
LeftJoin(cs, mcs) ==
  {pair \in cs \X mcs : pair[1].id = pair[2].company_id}
  \cup {<<c, NullConfig>> : c \in {co \in cs : \A mc \in mcs : mc.company_id # co.id}}

\* WHERE c.is_active = true AND (mc.is_enabled = true OR mc.is_enabled IS NULL)
ViewFilter(pair) ==
  /\ pair[1].is_active = "true"
  /\ (pair[2].is_enabled = "true" \/ pair[2].is_enabled = "null")

\* the rows of the view, and the companies they are rows of
ActiveCompaniesForMonitoring == {pair \in LeftJoin(companies, configs) : ViewFilter(pair)}
ViewCompanies == {pair[1] : pair \in ActiveCompaniesForMonitoring}

\* ------------------------------------------------ POST /api/setup-database
\* `if (check.rows.length === 0)`: the table is created only when
\* information_schema.columns lists no column for its name
CreatesTableAlways(shape) == TRUE
CreatesTable(shape) == shape = "absent"

\* the SQLSTATE of CREATE TABLE t in a transaction that sees schema sch
CreateTableError(sch, t) ==
  IF sch[t] # "absent" THEN "42P07"                       \* relation already exists
  ELSE IF t # "companies" /\ sch.companies = "absent" THEN "42P01"  \* REFERENCES companies(id)
  ELSE "ok"

\* the SQLSTATE of the four CREATE INDEX statements on products
CreateIndexError(sch) == IF sch.indexes \cap ProductIndexes # {} THEN "42P07" ELSE "ok"

\* the SQLSTATE of CREATE OR REPLACE VIEW active_companies_for_monitoring: the
\* query names c.is_active and mc.days_back, ..., columns only the full tables
\* have, and a view can be replaced only by one that keeps its columns
CreateViewError(sch) ==
  IF sch.companies = "absent" \/ sch.monitoring_configs = "absent" THEN "42P01"
  ELSE IF sch.companies # "full" \/ sch.monitoring_configs # "full" THEN "42703"
  ELSE IF sch.view = "legacy" THEN "42P16"
  ELSE "ok"

\* the response to the bootstrap: `batch` holds the schema before BEGIN and
\* `added` the schema the transaction had built when it ended
BootResponse(status, b) ==
  [Response("setup", status) EXCEPT !.batch = <<b.before>>, !.added = <<b.working>>,
                                    !.err = b.err, !.resub = b.again]

\* a statement of the bootstrap that failed with SQLSTATE e: to the catch block
BootFailed(e) == [boot EXCEPT !.err = e, !.pc = "rollback"]

\* pool.connect() and BEGIN
BootBegin ==
  /\ boot.pc = "idle"
  /\ ClientFree
  /\ boot' = [pc |-> "companies", before |-> schema, working |-> schema,
              again |-> (resp.op = "setup" /\ resp.status = 200), err |-> "ok"]
  /\ checkedOut' = Acquire(checkedOut)
  /\ UNCHANGED <<dbVars, stats, req, begun, resp, schema>>

\* the check of one table and, when it is missing, its CREATE TABLE
BootTable(t, next) ==
  LET e == IF CreatesTable(boot.working[t]) THEN CreateTableError(boot.working, t) ELSE "ok"
  IN /\ boot.pc = t
     /\ boot' = IF e # "ok" THEN BootFailed(e)
                ELSE IF CreatesTable(boot.working[t])
                THEN [boot EXCEPT !.working[t] = "full", !.pc = next]
                ELSE [boot EXCEPT !.pc = next]
     /\ UNCHANGED <<dbVars, stats, req, begun, resp, schema, checkedOut>>

BootCompanies == BootTable("companies", "monitoring_configs")
BootConfigs == BootTable("monitoring_configs", "products")

\* the check of products and, when it is missing, CREATE TABLE products and the
\* four CREATE INDEX statements
BootProducts ==
  LET creates == CreatesTable(boot.working.products)
      e == IF ~creates THEN "ok"
           ELSE IF CreateTableError(boot.working, "products") # "ok"
                THEN CreateTableError(boot.working, "products")
           ELSE CreateIndexError(boot.working)
  IN /\ boot.pc = "products"
     /\ boot' = IF e # "ok" THEN BootFailed(e)
                ELSE IF creates
                THEN [boot EXCEPT !.working.products = "full",
                                  !.working.indexes = @ \cup ProductIndexes, !.pc = "view"]
                ELSE [boot EXCEPT !.pc = "view"]
     /\ UNCHANGED <<dbVars, stats, req, begun, resp, schema, checkedOut>>

\* CREATE OR REPLACE VIEW active_companies_for_monitoring
BootView ==
  LET e == CreateViewError(boot.working)
  IN /\ boot.pc = "view"
     /\ boot' = IF e # "ok" THEN BootFailed(e)
                ELSE [boot EXCEPT !.working.view = "full", !.pc = "commit"]
     /\ UNCHANGED <<dbVars, stats, req, begun, resp, schema, checkedOut>>

\* COMMIT, then res.json({message: 'Database setup completed successfully', ...})
BootCommit ==
  /\ boot.pc = "commit"
  /\ schema' = boot.working
  /\ resp' = BootResponse(200, boot)
  /\ boot' = IdleBoot
  /\ checkedOut' = Release(checkedOut)
  /\ UNCHANGED <<dbVars, stats, req, begun>>

\* a ROLLBACK that leaves what the transaction created
SchemaAfterRollbackKeeps(before, working) == working

\* ROLLBACK: the schema after it
SchemaAfterRollback(before, working) == before

\* catch: ROLLBACK, then res.status(500)
BootRollback ==
  /\ boot.pc = "rollback"
  /\ schema' = SchemaAfterRollback(boot.before, boot.working)
  /\ resp' = BootResponse(500, boot)
  /\ boot' = IdleBoot
  /\ checkedOut' = Release(checkedOut)
  /\ UNCHANGED <<dbVars, stats, req, begun>>

\* COMMIT of the bootstrap throws: to the catch block, nothing was committed
BootCommitFails ==
  /\ boot.pc = "commit"
  /\ boot' = BootFailed("08006")
  /\ UNCHANGED <<dbVars, stats, req, begun, resp, schema, checkedOut>>

\* ROLLBACK of the bootstrap throws inside the catch block: the finally block
\* releases the client and no response is sent
BootRollbackFails ==
  /\ boot.pc = "rollback"
  /\ boot' = [IdleBoot EXCEPT !.pc = "hung", !.err = boot.err]
  /\ checkedOut' = Release(checkedOut)
  /\ UNCHANGED <<dbVars, stats, req, begun, resp, schema>>

\* pool.connect() of the bootstrap throws, before the try block
BootConnectFails ==
  /\ boot.pc = "idle"
  /\ boot' = [IdleBoot EXCEPT !.pc = "hung", !.err = "08001"]
  /\ UNCHANGED <<dbVars, stats, req, begun, resp, schema, checkedOut>>

Bootstrap ==
  \/ BootBegin
  \/ BootCompanies
  \/ BootConfigs
  \/ BootProducts
  \/ BootView
  \/ BootCommit
  \/ BootRollback

\* the schemas a database can hold before the bootstrap runs: nothing, the
\* tables and view of this server, those of the older server, or a mix left
\* by dropping some of them; a table that references companies needs it, the
\* indexes are on columns of the full products table (which may have lost
\* them to DROP INDEX), a view needs the columns it names
Shapes == {"absent", "legacy", "full"}
PriorSchemas ==
  {sch \in [companies : Shapes, monitoring_configs : Shapes, products : Shapes,
            indexes : {{}, ProductIndexes}, view : Shapes] :
     /\ sch.companies = "absent" =>
          sch.monitoring_configs = "absent" /\ sch.products = "absent"
     /\ sch.products # "full" => sch.indexes = {}
     /\ sch.view = "full" => sch.companies = "full" /\ sch.monitoring_configs = "full"
     /\ sch.view = "legacy" =>
          sch.companies # "absent" /\ sch.monitoring_configs = "legacy"}

\* ------------------------------------------------------------ specifications
\* the store after POST /api/setup-database on an empty database
Init ==
  /\ companies = {} /\ products = {} /\ configs = {}
  /\ nextCompanyId = 1 /\ nextProductId = 1 /\ nextConfigId = 1
  /\ clock = 0
  /\ req = [p \in Procs |-> IdleReq]
  /\ begun = 0
  /\ resp = NoResp
  /\ schema = FullSchema /\ boot = IdleBoot /\ checkedOut = 0 /\ stats = IdleStats

\* the steps of one bulk product request whose records are drawn from `records`
BulkProducts(p, records) ==
  \/ BulkProductsReject(p)
  \/ \E n \in 0 .. MaxBatch : BulkProductsBegin(p, n)
  \/ \E product \in records : BulkProductsInsert(p, product)
  \/ BulkProductsResume(p)
  \/ BulkProductsDeadlock(p)
  \/ BulkProductsCommit(p)
  \/ BulkProductsRollback(p)

BulkCompanies(p) ==
  \/ BulkCompaniesReject(p)
  \/ \E n \in 0 .. MaxBatch : BulkCompaniesBegin(p, n)
  \/ \E company \in CompanyRecords : BulkCompaniesInsert(p, company)
  \/ BulkCompaniesCommit(p)
  \/ BulkCompaniesRollback(p)

\* every handler, every input
Next ==
  \/ \E name \in NameInputs : AddCompany(name)
  \/ \E id \in 1 .. MaxCompanies : DeleteCompany(id)
  \/ \E body \in ProductBodies : AddProduct(body)
  \/ \E id \in 1 .. MaxProductIds, body \in Flagged(ProductBodies) : UpdateProduct(id, body)
  \/ \E id \in 1 .. MaxProductIds : DeleteProduct(id)
  \/ \E body \in ConfigBodies : SaveMonitoringConfig(body)
  \/ \E id \in CompanyRefs : DeleteMonitoringConfig(id)
  \/ \E p \in Procs : BulkProducts(p, ProductRecords) \/ BulkCompanies(p)
  \/ \E id \in 1 .. MaxCompanies, is_active \in StatusInputs : SetCompanyStatus(id, is_active)
  \/ Bootstrap
  \/ Tick
  \/ StatsBegin
  \/ \E k \in StatQueries : StatsSend(k) \/ StatsResult(k) \/ StatsQueryFails(k)
  \/ \E k \in StatQueries : StatsQueryStalls(k)
  \/ \E p \in Procs, n \in 0 .. MaxBatch : BulkProductsQueued(p, n)
  \/ \E p \in Procs : BulkProductsGranted(p)
  \/ \E p \in Procs : BulkCommitFails(p) \/ BulkRollbackFails(p)
  \/ \E p \in Procs, kind \in {"products", "companies"} : BulkConnectFails(p, kind)
  \/ BootCommitFails
  \/ BootRollbackFails
  \/ BootConnectFails

Spec == Init /\ [][Next]_vars

\* bulk product ingestion, alone and concurrent, on a store that gains its company
NextBulk ==
  \/ AddCompany("acme")
  \/ \E p \in Procs : BulkProducts(p, ProductRecords)

SpecBulk == Init /\ [][NextBulk]_vars

\* the requests that carry a title
Titled(S) == {b \in S : b.title = "Shirt"}

\* every way a product row is written, interleaved: single inserts, updates,
\* deletes and bulk ingestions, all of titled products
NextProducts ==
  \/ \E body \in Titled(ProductBodies) : AddProduct(body)
  \/ \E id \in 1 .. MaxProductIds, body \in Flagged(Titled(ProductBodies)) : UpdateProduct(id, body)
  \/ \E id \in 1 .. MaxProductIds : DeleteProduct(id)
  \/ \E p \in Procs : BulkProducts(p, Titled(ProductRecords))

\* the store once POST /api/companies has added the first company
InitOwned ==
  /\ companies = {NewCompanyRow(1, [name |-> "acme"])}
  /\ products = {} /\ configs = {}
  /\ nextCompanyId = 2 /\ nextProductId = 1 /\ nextConfigId = 1
  /\ clock = 0
  /\ req = [p \in Procs |-> IdleReq]
  /\ begun = 0
  /\ resp = [Response("addCompany", 201) EXCEPT
               !.batch = <<[name |-> "acme"]>>,
               !.added = <<NewCompanyRow(1, [name |-> "acme"])>>]
  /\ schema = FullSchema /\ boot = IdleBoot /\ checkedOut = 0 /\ stats = IdleStats

SpecProducts == InitOwned /\ [][NextProducts]_vars

\* monitoring-config saves and deletes for one company, as time passes
NextConfig ==
  \/ AddCompany("acme")
  \/ \E body \in ConfigBodies : SaveMonitoringConfig(body)
  \/ \E id \in CompanyRefs : DeleteMonitoringConfig(id)
  \/ Tick

SpecConfig == Init /\ [][NextConfig]_vars

\* a save that leaves every tuning field out
DefaultBodies ==
  {b \in ConfigBodies : /\ b.days_back = NULL /\ b.max_products = NULL
                        /\ b.check_frequency = UNDEFS /\ b.is_enabled = UNDEFS}

\* the titled requests that carry no external id
Plain(S) == {b \in Titled(S) : b.shopify_product_id = NULL}

\* companies come and go while products and configs are written for them,
\* one bulk ingestion at a time
NextCascade ==
  \/ AddCompany("acme")
  \/ \E id \in 1 .. MaxCompanies : DeleteCompany(id)
  \/ \E body \in Plain(ProductBodies) : AddProduct(body)
  \/ \E body \in DefaultBodies : SaveMonitoringConfig(body)
  \/ \E n \in 0 .. MaxBatch : BulkProductsBegin(1, n)
  \/ \E product \in Plain(ProductRecords) : BulkProductsInsert(1, product)
  \/ BulkProductsCommit(1)
  \/ BulkProductsRollback(1)

SpecCascade == Init /\ [][NextCascade]_vars

\* company creation, single and bulk, and company deletion
NextCompanies ==
  \/ \E name \in NameInputs : AddCompany(name)
  \/ \E id \in 1 .. MaxCompanies : DeleteCompany(id)
  \/ \E p \in Procs : BulkCompanies(p)

SpecCompanies == Init /\ [][NextCompanies]_vars

\* single product inserts and deletes beside one bulk ingestion at a time, on a
\* store that has its first company
NextSingle ==
  \/ \E body \in ProductBodies : AddProduct(body)
  \/ \E id \in 1 .. MaxProductIds : DeleteProduct(id)
  \/ \E n \in 0 .. MaxBatch : BulkProductsBegin(1, n)
  \/ \E product \in Titled(ProductRecords) : BulkProductsInsert(1, product)
  \/ BulkProductsCommit(1)
  \/ BulkProductsRollback(1)

SpecSingle == InitOwned /\ [][NextSingle]_vars

\* the requests that carry no external id, with and without their required fields
Unkeyed(S) == {b \in S : b.shopify_product_id = NULL}

\* requests with and without their required fields, bulk bodies that are and
\* are not arrays, while a bulk company ingestion holds a client
NextValidation ==
  \/ \E name \in NameInputs : AddCompany(name)
  \/ \E body \in Unkeyed(ProductBodies) : AddProduct(body)
  \/ \E id \in 1 .. MaxProductIds, body \in Flagged(Unkeyed(ProductBodies)) : UpdateProduct(id, body)
  \/ \E body \in DefaultBodies : SaveMonitoringConfig(body)
  \/ \E p \in Procs : BulkProductsReject(p)
  \/ BulkCompanies(1)

SpecValidation == Init /\ [][NextValidation]_vars

\* updates and deletes that name rows that are and are not there
NextNotFound ==
  \/ AddCompany("acme")
  \/ \E id \in 1 .. MaxCompanies, is_active \in StatusInputs : SetCompanyStatus(id, is_active)
  \/ \E id \in 1 .. MaxCompanies : DeleteCompany(id)
  \/ \E body \in Plain(ProductBodies) : AddProduct(body)
  \/ \E id \in 1 .. MaxProductIds, body \in Flagged(Plain(ProductBodies)) : UpdateProduct(id, body)
  \/ \E id \in 1 .. MaxProductIds : DeleteProduct(id)
  \/ \E body \in DefaultBodies : SaveMonitoringConfig(body)
  \/ \E id \in CompanyRefs : DeleteMonitoringConfig(id)

SpecNotFound == Init /\ [][NextNotFound]_vars

\* bulk product ingestions of titled records, one after the other and alone,
\* on a store that has its first company
NextBatch ==
  \/ \E n \in 0 .. MaxBatch : BulkProductsBegin(1, n)
  \/ \E product \in Titled(ProductRecords) : BulkProductsInsert(1, product)
  \/ BulkProductsCommit(1)
  \/ BulkProductsRollback(1)

SpecBatch == InitOwned /\ [][NextBatch]_vars

\* the names a POST /api/companies body can carry: none, empty, two that
\* fit the column and one that does not
CreateNames == NameInputs \cup {"", "globex", LongName}

\* companies created one at a time, switched on and off, and deleted
NextCreate ==
  \/ \E name \in CreateNames : AddCompany(name)
  \/ \E id \in 1 .. MaxCompanies, is_active \in StatusInputs : SetCompanyStatus(id, is_active)
  \/ \E id \in 1 .. MaxCompanies : DeleteCompany(id)

SpecCreate == Init /\ [][NextCreate]_vars

\* saves that say whether monitoring is enabled: not at all, true, false, null
ViewBodies ==
  [company_id : CompanyRefs, days_back : {NULL}, max_products : {NULL},
   check_frequency : {UNDEFS}, is_enabled : EnabledInputs \cup {"null"}]

\* companies created, switched on and off, with and without a config
NextView ==
  \/ AddCompany("acme")
  \/ \E id \in 1 .. MaxCompanies, is_active \in StatusInputs : SetCompanyStatus(id, is_active)
  \/ \E body \in ViewBodies : SaveMonitoringConfig(body)
  \/ \E id \in CompanyRefs : DeleteMonitoringConfig(id)

SpecView == Init /\ [][NextView]_vars

\* the titled records of the first company that carry an external id
Keyed(S) == {b \in Titled(S) : b.company_id # NULL /\ b.shopify_product_id # NULL}

\* the three transactional handlers side by side, on connections that can be
\* refused, and lost at COMMIT and at ROLLBACK
NextPool ==
  \/ \E p \in Procs : BulkProducts(p, Keyed(ProductRecords))
  \/ \E p \in Procs : BulkCompanies(p)
  \/ \E p \in Procs : BulkCommitFails(p)
  \/ \E p \in Procs : BulkRollbackFails(p)
  \/ Bootstrap
  \/ BootCommitFails
  \/ BootRollbackFails
  \/ \E p \in Procs, kind \in {"products", "companies"} : BulkConnectFails(p, kind)
  \/ BootConnectFails

SpecPool == InitOwned /\ [][NextPool]_vars

\* the statistics are read while products of the first company come and go
NextStats ==
  \/ \E body \in Plain(ProductBodies) : AddProduct(body)
  \/ \E id \in 1 .. MaxProductIds : DeleteProduct(id)
  \/ StatsBegin
  \/ \E k \in StatQueries : StatsSend(k)
  \/ \E k \in StatQueries : StatsResult(k)
  \/ \E k \in StatQueries : StatsQueryFails(k)

SpecStats == InitOwned /\ [][NextStats]_vars

\* bulk product requests of at most one record that find the pool free or
\* exhausted by the queries of GET /api/stats, on a store that can stop answering
NextWait ==
  \/ \E p \in Procs, n \in 0 .. 1 : BulkProductsBegin(p, n)
  \/ \E p \in Procs, n \in 0 .. 1 : BulkProductsQueued(p, n)
  \/ \E p \in Procs : BulkProductsGranted(p)
  \/ \E p \in Procs, product \in Plain(ProductRecords) : BulkProductsInsert(p, product)
  \/ \E p \in Procs : BulkProductsCommit(p)
  \/ StatsBegin
  \/ \E k \in StatQueries : StatsSend(k)
  \/ \E k \in StatQueries : StatsResult(k)
  \/ \E k \in StatQueries : StatsQueryStalls(k)

\* What the scheduling of the program guarantees: a handler whose awaited
\* statement has been answered runs on (the event loop runs every ready
\* continuation), the pool sends a queued query when it has a client, and a
\* released client goes to the request that waits for it (the pool serves its
\* queue first come, first served).  Nothing makes the store answer, and
\* nothing makes new requests arrive.
WaitFairness ==
  /\ \A p \in Procs : SF_vars(BulkProductsGranted(p))
  /\ \A p \in Procs : WF_vars(\E product \in Plain(ProductRecords) : BulkProductsInsert(p, product))
  /\ \A p \in Procs : WF_vars(BulkProductsCommit(p))
  /\ \A k \in StatQueries : WF_vars(StatsSend(k))
  /\ \A k \in StatQueries : WF_vars(StatsResult(k))

SpecWait == InitOwned /\ [][NextWait]_vars /\ WaitFairness

\* a database before its bootstrap, with no rows
InitBoot ==
  /\ companies = {} /\ products = {} /\ configs = {}
  /\ nextCompanyId = 1 /\ nextProductId = 1 /\ nextConfigId = 1
  /\ clock = 0
  /\ req = [p \in Procs |-> IdleReq]
  /\ begun = 0
  /\ resp = NoResp
  /\ schema \in PriorSchemas /\ boot = IdleBoot /\ checkedOut = 0 /\ stats = IdleStats

\* bootstrap requests, one after the other
SpecBoot == InitBoot /\ [][Bootstrap]_vars

\* ------------------------------------------------------------------ claims
\* the products table holds no two rows with one non-null key
NoDuplicateKey ==
  \A r1, r2 \in products :
    r1.id # r2.id => ~KeyConflict(r1, r2.company_id, r2.shopify_product_id)

\* C1: in bulk product ingestion a record whose insert fails with a uniqueness
\* violation is put in the skipped collection with a reason, the transaction is
\* not aborted by it, and the later records of the batch are still attempted:
\* none of them is refused because the transaction is in the aborted state.
C1_SkipKeepsTransactionAlive ==
  /\ \A p \in Procs :
       req[p].kind = "products" =>
         /\ req[p].err = "23505" =>
              /\ req[p].skipped # <<>>
              /\ req[p].skipped[Len(req[p].skipped)].product = req[p].batch[Len(req[p].batch)]
              /\ req[p].skipped[Len(req[p].skipped)].reason = "Duplicate Shopify ID"
         /\ req[p].skipped # <<>> => req[p].tx = "active"
         /\ req[p].err # "25P02"
  /\ resp.op = "bulkProducts" /\ resp.skipped # <<>> => resp.err \in {"ok", "23505"}

\* C2: bulk product ingestion is idempotent: a request that repeats the batch of
\* the fully accepted request before it (every record of it carrying a company
\* and an external id) answers 201 with every record skipped, none added, a
\* skipped count equal to the batch size, and leaves no duplicate rows.
C2_ResubmissionSkipsAll ==
  ( /\ resp.op = "bulkProducts" /\ resp.resub
    /\ \A k \in 1 .. Len(resp.batch) :
         /\ resp.batch[k].company_id # NULL
         /\ OrNull(resp.batch[k].shopify_product_id) # NULL )
  => /\ resp.status = 201
     /\ resp.added = <<>>
     /\ Len(resp.skipped) = resp.n
     /\ NoDuplicateKey

\* C3: when bulk product ingestion answers 201, every record it returns in
\* `products` is a row of the products table.
C3_AcceptedRowsAreStored ==
  (resp.op = "bulkProducts" /\ resp.status = 201) =>
    /\ Range(resp.added) \subseteq products
    /\ resp.n = Len(resp.added) + Len(resp.skipped)

\* C4: in bulk product ingestion an insert failure other than a uniqueness
\* violation is fatal: the loop stops and the handler rolls back, the response is
\* a 500, and no row the request inserted, before the failing record or at any
\* point, is in the products table afterwards.
C4_OtherFailureRollsBack ==
  /\ \A p \in Procs :
       (req[p].kind = "products" /\ req[p].err \notin {"ok", "23505"}) =>
         req[p].pc = "rollback"
  /\ (resp.op = "bulkProducts" /\ resp.err \notin {"ok", "23505"}) =>
       /\ resp.status = 500
       /\ \A row \in Range(resp.added) : \A stored \in products : stored.id # row.id

\* a batch whose first record was inserted and whose second has no title was
\* answered
C4_Witness ==
  /\ resp.op = "bulkProducts" /\ resp.status = 500 /\ resp.err = "23502"
  /\ Len(resp.added) = 1 /\ Len(resp.batch) = 2

\* C5: in every state reachable by single product inserts, bulk ingestions,
\* product updates and deletes, no two product rows have the same company_id
\* and the same present shopify_product_id.
C5_NoTwoRowsShareKey ==
  \A r1, r2 \in products :
    ( /\ r1.company_id = r2.company_id
      /\ r1.shopify_product_id # NULL
      /\ r1.shopify_product_id = r2.shopify_product_id )
    => r1.id = r2.id

\* the row monitoring_configs holds for a company
ConfigOf(company_id) == CHOOSE row \in configs : row.company_id = company_id

\* C6: whatever the interleaving of monitoring-config saves and deletes for a
\* company, the monitoring_configs table never holds two rows for it.
C6_OneConfigPerCompany ==
  \A r1, r2 \in configs : r1.company_id = r2.company_id => r1 = r2

\* a save found the company's row in place and answered 200
C6_Witness ==
  /\ resp.op = "saveConfig" /\ resp.status = 200 /\ resp.resub
  /\ Cardinality(configs) = 1

\* C7: after a second monitoring-config save for a company, one that supplies
\* all four fields, the table holds exactly one row for the company and its
\* days_back, max_products, check_frequency and is_enabled are that save's.
C7_SecondSaveWins ==
  ( /\ resp.op = "saveConfig" /\ resp.status = 200 /\ resp.resub
    /\ resp.batch[1].days_back # NULL /\ resp.batch[1].max_products # NULL
    /\ resp.batch[1].check_frequency # UNDEFS /\ resp.batch[1].is_enabled # UNDEFS )
  => /\ Cardinality({row \in configs : row.company_id = resp.batch[1].company_id}) = 1
     /\ ConfigOf(resp.batch[1].company_id).days_back = resp.batch[1].days_back
     /\ ConfigOf(resp.batch[1].company_id).max_products = resp.batch[1].max_products
     /\ ConfigOf(resp.batch[1].company_id).check_frequency = resp.batch[1].check_frequency
     /\ ConfigOf(resp.batch[1].company_id).is_enabled = resp.batch[1].is_enabled

\* C8: a monitoring-config save stores each of days_back, max_products,
\* check_frequency and is_enabled as supplied when it is supplied and as its
\* default (7, 50, "weekly", true) only when it is omitted, on insert and on
\* overwrite alike, and an overwrite sets updated_at to the time of the save.
C8_SuppliedValuesStored ==
  (resp.op = "saveConfig" /\ resp.status = 200)
  => /\ ConfigOf(resp.batch[1].company_id).days_back =
          (IF resp.batch[1].days_back = NULL THEN 7 ELSE resp.batch[1].days_back)
     /\ ConfigOf(resp.batch[1].company_id).max_products =
          (IF resp.batch[1].max_products = NULL THEN 50 ELSE resp.batch[1].max_products)
     /\ ConfigOf(resp.batch[1].company_id).check_frequency =
          (IF resp.batch[1].check_frequency = UNDEFS THEN "weekly"
           ELSE resp.batch[1].check_frequency)
     /\ ConfigOf(resp.batch[1].company_id).is_enabled =
          (IF resp.batch[1].is_enabled = UNDEFS THEN "true" ELSE resp.batch[1].is_enabled)
     /\ resp.resub => ConfigOf(resp.batch[1].company_id).updated_at = resp.at

\* the rows of a table that reference a company
Referencing(table, id) == {row \in table : row.company_id = id}

\* C9: after a successful DELETE /companies/:id no product row and no
\* monitoring_configs row references that company, and in every reachable state
\* no product or config row references a company that does not exist.
C9_DeleteCascades ==
  /\ \A row \in products \cup configs :
       row.company_id # NULL => \E co \in companies : co.id = row.company_id
  /\ (resp.op = "deleteCompany" /\ resp.status = 200)
     => /\ Referencing(products, resp.batch[1].id) = {}
        /\ Referencing(configs, resp.batch[1].id) = {}

\* a company that owned a product and a config was deleted
C9_Witness ==
  /\ resp.op = "deleteCompany" /\ resp.status = 200
  /\ resp.n >= 1 /\ resp.at >= 1

\* C10: bulk company ingestion is all-or-nothing: if the insert of a record
\* fails the request answers 500 and no company of the batch is in the table;
\* if none fails it answers 201, every company of the batch is in the table and
\* the count equals the batch length.
C10_BulkCompaniesAllOrNothing ==
  /\ \A p \in Procs :
       (req[p].kind = "companies" /\ req[p].err # "ok") => req[p].pc = "rollback"
  /\ (resp.op = "bulkCompanies" /\ resp.status # 400)
     => IF resp.err # "ok"
        THEN /\ resp.status = 500
             /\ \A row \in Range(resp.added) : \A co \in companies : co.id # row.id
        ELSE /\ resp.status = 201
             /\ Range(resp.added) \subseteq companies
             /\ Len(resp.added) = resp.n /\ Len(resp.batch) = resp.n

\* a batch whose first company was inserted and whose second has no name was
\* answered
C10_Witness ==
  /\ resp.op = "bulkCompanies" /\ resp.status = 500 /\ resp.err = "23502"
  /\ Len(resp.added) = 1 /\ Len(resp.batch) = 2

\* C11: after any sequence of company creations and bulk company ingestions no
\* two rows of the companies table have the same name.
C11_CompanyNamesUnique ==
  \A c1, c2 \in companies : c1.name = c2.name => c1.id = c2.id

\* C12: a bootstrap that follows a bootstrap that succeeded answers 200 and
\* leaves the schema (tables, indexes, view) exactly as it found it.
C12_SecondBootstrapIsNoOp ==
  (resp.op = "setup" /\ resp.resub)
  => /\ resp.status = 200
     /\ schema = resp.batch[1]

\* a bootstrap that built the schema was followed by a second one, answered
C12_Witness ==
  /\ resp.op = "setup" /\ resp.resub /\ resp.status = 200
  /\ boot.pc = "idle"

\* C13: the statements of a bootstrap run in one transaction: nothing it
\* creates is in the committed schema before COMMIT, a failed statement sends
\* it to ROLLBACK, and after the 500 the schema is what it was before the call.
C13_FailedBootstrapLeavesSchema ==
  /\ boot.pc # "idle" => schema = boot.before
  /\ boot.err # "ok" => boot.pc = "rollback"
  /\ (resp.op = "setup" /\ resp.status = 500) => schema = resp.batch[1]
  /\ (resp.op = "setup" /\ resp.status = 200) => resp.err = "ok"

\* a bootstrap created tables, then failed on the view over a table of another
\* shape, and was answered
C13_Witness ==
  /\ resp.op = "setup" /\ resp.status = 500 /\ resp.err = "42703"
  /\ resp.added[1].products = "full" /\ resp.batch[1].products = "absent"
  /\ schema.products = "absent"

\* C14: a POST /products that passes validation and whose (company_id,
\* shopify_product_id) is the key of a row of the products table is answered
\* 409, not 500, and leaves the products table as it was; and no 409 is sent
\* by a request that changed the table.
C14_DuplicateInsertIs409 ==
  [][ /\ \A body \in ProductBodies :
           ( /\ AddProduct(body)
             /\ ~FalsyNum(body.company_id) /\ ~FalsyStr(body.title)
             /\ \E row \in products :
                   KeyConflict(row, body.company_id, OrNull(body.shopify_product_id)) )
           => (resp'.op = "addProduct" /\ resp'.status = 409 /\ products' = products)
      /\ (resp' # resp /\ resp'.op = "addProduct" /\ resp'.status = 409)
           => products' = products ]_vars

\* a single insert was answered 409 while the table holds a row
C14_Witness ==
  /\ resp.op = "addProduct" /\ resp.status = 409
  /\ \E row \in products : row.company_id # NULL /\ row.shopify_product_id # NULL

\* the store, the sequences, the schema, the transactions and the pool
storeVars == <<dbVars, req, schema, checkedOut>>

\* C15: a request with a missing required field (company name, product
\* company_id or title, config company_id) or a bulk body that is not an array
\* is answered 400 with no client taken from the pool and no statement run: the
\* step that sends a 400 changes neither the store nor the pool.
C15_ValidationBeforeStore ==
  [][ /\ (resp' # resp /\ resp'.status = 400) => UNCHANGED storeVars
      /\ \A name \in NameInputs :
           (AddCompany(name) /\ FalsyStr(name))
           => (resp'.status = 400 /\ UNCHANGED storeVars)
      /\ \A body \in Unkeyed(ProductBodies) :
           (AddProduct(body) /\ (FalsyNum(body.company_id) \/ FalsyStr(body.title)))
           => (resp'.status = 400 /\ UNCHANGED storeVars)
      /\ \A id \in 1 .. MaxProductIds, body \in Unkeyed(ProductBodies) :
           (UpdateProduct(id, body) /\ FalsyStr(body.title))
           => (resp'.status = 400 /\ UNCHANGED storeVars)
      /\ \A body \in DefaultBodies :
           (SaveMonitoringConfig(body) /\ FalsyNum(body.company_id))
           => (resp'.status = 400 /\ UNCHANGED storeVars)
      /\ \A p \in Procs :
           (BulkProductsReject(p) \/ BulkCompaniesReject(p))
           => (resp'.status = 400 /\ UNCHANGED storeVars) ]_vars

\* a bulk product body that is no array was answered 400 while a bulk company
\* ingestion held a client and the store held a company
C15_Witness ==
  /\ resp.op = "bulkProducts" /\ resp.status = 400
  /\ checkedOut = 1 /\ companies # {}

\* the tables and their sequences
tableVars == <<companies, products, configs, nextCompanyId, nextProductId, nextConfigId>>

\* C16: an update or delete of a row that is not in its table (PATCH
\* /companies/:id/status, DELETE /companies/:id, PUT or DELETE /products/:id,
\* DELETE /monitoring-configs/:company_id) is answered 404, not 500, and leaves
\* every table unchanged.
C16_AbsentRowIs404 ==
  [][ /\ (resp' # resp /\ resp'.status = 404) => UNCHANGED tableVars
      /\ \A id \in 1 .. MaxCompanies :
           /\ \A is_active \in StatusInputs :
                (SetCompanyStatus(id, is_active) /\ \A co \in companies : co.id # id)
                => (resp'.status = 404 /\ UNCHANGED tableVars)
           /\ (DeleteCompany(id) /\ \A co \in companies : co.id # id)
                => (resp'.status = 404 /\ UNCHANGED tableVars)
      /\ \A id \in 1 .. MaxProductIds :
           /\ \A body \in Plain(ProductBodies) :
                (UpdateProduct(id, body) /\ \A row \in products : row.id # id)
                => (resp'.status = 404 /\ UNCHANGED tableVars)
           /\ (DeleteProduct(id) /\ \A row \in products : row.id # id)
                => (resp'.status = 404 /\ UNCHANGED tableVars)
      /\ \A id \in CompanyRefs :
           (DeleteMonitoringConfig(id) /\ \A row \in configs : row.company_id # id)
           => (resp'.status = 404 /\ UNCHANGED tableVars) ]_vars

\* a product delete named a row that is gone while the tables hold other rows
C16_Witness ==
  /\ resp.op = "deleteProduct" /\ resp.status = 404
  /\ products # {} /\ companies # {}

\* the key a bulk record is inserted under
RecordKey(product) ==
  <<product.company_id, BulkProductParams(product).shopify_product_id>>

\* C17: a bulk product request whose batch is two records with the same
\* company_id and the same shopify_product_id, sent when no row has that pair,
\* is answered 201 with added=1, skipped=1: the first record is in `products`
\* and the second in `skippedProducts` with reason "Duplicate Shopify ID".
C17_DuplicateInBatchIsSkipped ==
  [][ ( /\ resp' # resp /\ resp'.op = "bulkProducts"
        /\ resp'.n = 2 /\ Len(resp'.batch) = 2
        /\ RecordKey(resp'.batch[1]) = RecordKey(resp'.batch[2])
        /\ resp'.batch[1].company_id # NULL
        /\ BulkProductParams(resp'.batch[1]).shopify_product_id # NULL
        /\ \A row \in products :
              ~KeyConflict(row, RecordKey(resp'.batch[1])[1], RecordKey(resp'.batch[1])[2]) )
      => /\ resp'.status = 201
         /\ Len(resp'.added) = 1 /\ Len(resp'.skipped) = 1
         /\ <<resp'.added[1].company_id, resp'.added[1].shopify_product_id>>
              = RecordKey(resp'.batch[1])
         /\ resp'.skipped[1].product = resp'.batch[2]
         /\ resp'.skipped[1].reason = "Duplicate Shopify ID" ]_vars

\* such a request was answered
C17_Witness ==
  /\ resp.op = "bulkProducts" /\ resp.status = 201 /\ resp.n = 2
  /\ Len(resp.added) = 1 /\ Len(resp.skipped) = 1
  /\ resp.skipped[1].reason = "Duplicate Shopify ID"
  /\ RecordKey(resp.batch[1]) = RecordKey(resp.batch[2])

\* C18: a POST /companies whose name is non-empty and fits the column is
\* answered 201 with a row whose name is the name sent and whose is_active is
\* true, and that row is in the companies table (and was not before).
C18_CreatedCompanyIsReturned ==
  [][ \A name \in CreateNames :
        (AddCompany(name) /\ ~FalsyStr(name) /\ ~TooLong(name))
        => /\ resp'.op = "addCompany" /\ resp'.status = 201
           /\ Len(resp'.added) = 1
           /\ resp'.added[1].name = name
           /\ resp'.added[1].is_active = "true"
           /\ resp'.added[1] \in companies'
           /\ \A co \in companies : co.id # resp'.added[1].id ]_vars

\* a second company was created beside one that was switched off
C18_Witness ==
  /\ resp.op = "addCompany" /\ resp.status = 201
  /\ resp.added[1].name = "globex" /\ resp.added[1] \in companies
  /\ \E co \in companies : co.is_active = "false"

\* C19: a company appears in the view active_companies_for_monitoring if and
\* only if its is_active is true and it has a monitoring config with
\* is_enabled true.
C19_ViewIsActiveAndEnabled ==
  \A co \in companies :
    co \in ViewCompanies
    <=> /\ co.is_active = "true"
        /\ \E mc \in configs : mc.company_id = co.id /\ mc.is_enabled = "true"

\* C19, amended: a company appears in the view if and only if its is_active is
\* true and it has no monitoring config whose is_enabled is false; and the view
\* has one row for each such company.
C19_ViewIsActiveAndNotDisabled ==
  /\ \A co \in companies :
       co \in ViewCompanies
       <=> /\ co.is_active = "true"
           /\ ~\E mc \in configs : mc.company_id = co.id /\ mc.is_enabled = "false"
  /\ ViewCompanies \subseteq companies
  /\ Cardinality(ActiveCompaniesForMonitoring) = Cardinality(ViewCompanies)

\* an active company with no config is in the view beside an active company
\* whose config is disabled and which is not
C19_Witness ==
  /\ \E co \in ViewCompanies : \A mc \in configs : mc.company_id # co.id
  /\ \E co \in companies \ ViewCompanies :
        /\ co.is_active = "true"
        /\ \E mc \in configs : mc.company_id = co.id /\ mc.is_enabled = "false"

\* the requests that hold a client: the bulk requests between BEGIN and the end
\* of their finally block, and the bootstrap likewise
Holders ==
  Cardinality({p \in Procs : InFlight(p)})
  + (IF boot.pc \notin {"idle", "hung"} THEN 1 ELSE 0)

\* C20: every transactional handler releases its client on every exit path,
\* also when COMMIT or ROLLBACK itself fails: the clients checked out are
\* those of the requests in flight, and none when no request is in flight.
C20_ConnectionsReleased ==
  /\ checkedOut = Holders
  /\ (boot.pc \in {"idle", "hung"} /\ \A p \in Procs : req[p].pc \in {"idle", "hung"})
       => checkedOut = 0

\* every bulk request of the run and the bootstrap have ended, none with a
\* response (the ROLLBACK of each failed), and no client is checked out
C20_Witness ==
  /\ begun = MaxBulk /\ resp.op = "addCompany"
  /\ boot.pc = "hung" /\ boot.err # "08001"
  /\ \A p \in Procs : req[p].pc = "hung" /\ req[p].err # "08001"
  /\ checkedOut = 0

\* C21: after every successful bootstrap the four supporting indexes on
\* products exist, whether this bootstrap created the products table or found it.
C21_IndexesAfterBootstrap ==
  (resp.op = "setup" /\ resp.status = 200) => ProductIndexes \subseteq schema.indexes

\* C23: a bulk request whose records all lack shopify_product_id, each for a
\* company of the store (or for none), is answered 201 with every record added
\* and none skipped, and the added rows are distinct rows of the store,
\* whatever rows without the identifier the same company already has.
C23_UnkeyedRecordsAreNeverDuplicates ==
  ( /\ resp.op = "bulkProducts" /\ Len(resp.batch) = resp.n
    /\ \A k \in 1 .. Len(resp.batch) :
          /\ BulkProductParams(resp.batch[k]).shopify_product_id = NULL
          /\ ~ProductFkViolation(resp.batch[k].company_id) )
  => /\ resp.status = 201
     /\ resp.skipped = << >>
     /\ Len(resp.added) = resp.n
     /\ Range(resp.added) \subseteq products
     /\ Cardinality(Range(resp.added)) = resp.n
     /\ \A k \in 1 .. resp.n :
          /\ resp.added[k].company_id = resp.batch[k].company_id
          /\ resp.added[k].shopify_product_id = NULL

\* one company has two rows without the identifier, the later one just added
C23_Witness ==
  /\ resp.op = "bulkProducts" /\ resp.status = 201 /\ resp.n >= 1
  /\ \A k \in 1 .. Len(resp.batch) : resp.batch[k].shopify_product_id = NULL
  /\ \E a, b \in products :
        /\ a.id # b.id /\ a.company_id = 1 /\ b.company_id = 1
        /\ a.shopify_product_id = NULL /\ b.shopify_product_id = NULL
        /\ a \in Range(resp.added)

\* the k-th smallest position of a set of positions, and the records of a
\* batch at a set of positions, in batch order
Kth(I, k) == CHOOSE i \in I : Cardinality({j \in I : j <= i}) = k
Pick(batch, I) == [k \in 1 .. Cardinality(I) |-> batch[Kth(I, k)]]

\* C26: on a 201 of bulk product ingestion, added plus skipped is the number
\* of records submitted, and the records split by position into those returned
\* in `products` and those returned in `skippedProducts`, each in exactly one.
C26_EveryRecordAddedOrSkipped ==
  (resp.op = "bulkProducts" /\ resp.status = 201) =>
    /\ Len(resp.batch) = resp.n
    /\ Len(resp.added) + Len(resp.skipped) = resp.n
    /\ \E I \in SUBSET (1 .. resp.n) :
         /\ [k \in 1 .. Len(resp.added) |->
               <<resp.added[k].company_id, resp.added[k].shopify_product_id>>]
              = [k \in 1 .. Cardinality(I) |-> RecordKey(Pick(resp.batch, I)[k])]
         /\ [k \in 1 .. Len(resp.skipped) |-> resp.skipped[k].product]
              = Pick(resp.batch, (1 .. resp.n) \ I)

\* a batch of two was answered with one record added and the other skipped
C26_Witness ==
  /\ resp.op = "bulkProducts" /\ resp.status = 201 /\ resp.n = 2
  /\ Len(resp.added) = 1 /\ Len(resp.skipped) = 1

\* C24: every request to a transactional handler receives a response: no
\* handler of a bulk ingestion or of the bootstrap ends, on any path, without
\* having sent one.
C24_EveryRequestAnswered ==
  /\ boot.pc # "hung"
  /\ \A p \in Procs : req[p].pc # "hung"

\* C25: every successful GET /stats response is a consistent snapshot of the
\* store; in particular its newProducts is at most its totalProducts, also
\* when products are inserted and deleted while the four counts are read.
C25_StatsIsSnapshot ==
  (resp.op = "stats" /\ resp.status = 200) =>
    resp.batch[1].newProducts <= resp.batch[1].totalProducts

\* C22: connection acquisition has a bounded wait: a bulk product request that
\* waits for a client while the pool is exhausted eventually obtains one or
\* is answered with an error; it never waits indefinitely.
C22_AcquisitionIsBounded ==
  \A p \in Procs : (req[p].pc = "connect") ~> (req[p].pc # "connect")

====
